---- MODULE Spec2Model ----
(***************************************************************************)
(* The Idle service of ng2-idle (src/src/idle.ts): an idle-detection       *)
(* controller driven by two interval timers and by interrupt sources.      *)
(*                                                                         *)
(* Every method of the class is an operator over a record `s` holding the  *)
(* fields of the object, the host's table of pending interval timers and   *)
(* the record of what the running call has done so far (`trace`).  A call  *)
(* that invokes another method is the composition of the two operators,   *)
(* in the order of the source.  One action per public method and per      *)
(* timer callback applies the operator to the current state.              *)
(***************************************************************************)
EXTENDS Integers, Sequences, FiniteSets, TLC

\* ---------------------------------------------------------------- bounds
\* Largest idle duration (seconds) passed to setIdle.
MaxIdle == 2
\* Largest timeout duration (seconds) passed to setTimeout.
MaxTimeout == 3
\* Most timer callbacks run between two calls of an embedder with a listener.
MaxFired == 4
\* Longest source list passed to setInterrupts.
MaxSubs == 2

\* ------------------------------------------------------------- constants
\* null / undefined of a timer handle and of an emitted payload.
Null == 0
\* `private countdown: number;` is declared without an initializer.
Undefined == -1
\* `private idle: number = 20 * 60;`
DefaultIdle == 20 * 60
\* `private timeoutVal: number = 30;`
DefaultTimeout == 30
\* Period of the countdown interval, in seconds (setInterval(..., 1000)).
CountdownPeriod == 1

\* enum AutoResume
AutoResume == {"disabled", "idle", "notIdle"}

\* The interrupt sources the embedder owns (two MockInterruptSource objects).
Sources == {1, 2}
\* eventArgs handed to interrupt(): absent, or some event object.
EventArgs == {Null, 1}

\* The values a caller can hand to setTimeout(seconds: number | boolean).
JsFalse == [type |-> "boolean", val |-> 0]
JsTrue == [type |-> "boolean", val |-> 1]
JsNumber(n) == [type |-> "number", val |-> n]
\* false, a value that is neither false nor a number, -5, and 0..MaxTimeout.
TimeoutInputs == {JsFalse, JsTrue} \cup {JsNumber(n) : n \in {-5} \cup (0..MaxTimeout)}
\* -1, 0, and 1..MaxIdle.
IdleInputs == -1..MaxIdle

VARIABLES
    idle,           \* this.idle
    timeoutVal,     \* this.timeoutVal
    autoResume,     \* this.autoResume
    interrupts,     \* this.interrupts: sequence of Interrupt subscriptions
    running,        \* this.running
    idling,         \* this.idling
    idleHandle,     \* this.idleHandle: id of an interval timer, or Null
    timeoutHandle,  \* this.timeoutHandle: id of an interval timer, or Null
    countdown,      \* this.countdown
    timers,         \* the host's pending interval timers, in creation order
    attached,       \* per source: attach hook calls minus detach hook calls
    dropped,        \* the Interrupt objects removed from this.interrupts
    listener,       \* the embedder's listener: the emitter it is on, what it calls
    silent,         \* the embedder has made its last call
    trace,          \* what the last step did: calls, emissions, hook calls
    last,           \* the last step: operation, argument, result, state before
    history         \* what the timer callbacks emitted since the last external call

vars == <<idle, timeoutVal, autoResume, interrupts, running, idling, idleHandle,
          timeoutHandle, countdown, timers, attached, dropped, listener, silent,
          trace, last, history>>

\* The fields of the object, the timer table and the hooks' balance.
fields == <<idle, timeoutVal, autoResume, interrupts, running, idling, idleHandle,
            timeoutHandle, countdown, timers, attached, dropped>>

\* The current state as the record the method operators work on.
St ==
    [idle |-> idle, timeoutVal |-> timeoutVal, autoResume |-> autoResume,
     interrupts |-> interrupts, running |-> running, idling |-> idling,
     idleHandle |-> idleHandle, timeoutHandle |-> timeoutHandle,
     countdown |-> countdown, timers |-> timers, attached |-> attached,
     dropped |-> dropped, listener |-> listener,
     trace |-> <<>>, threw |-> FALSE, ret |-> Null]

\* ------------------------------------------------------------ the trace
CallEv(name, arg) == [k |-> "call", n |-> name, v |-> arg]
EmitEv(name, payload) == [k |-> "emit", n |-> name, v |-> payload]
HookEv(kind, src) == [k |-> kind, n |-> "source", v |-> src]

Log(s, e) == [s EXCEPT !.trace = Append(@, e)]
Call(s, name) == Log(s, CallEv(name, Null))

\* No listener is registered on any emitter.
NoListener == [on |-> "none", does |-> "none"]

RECURSIVE watch(_), stop(_)
\* EventEmitter.emit(payload) of the emitter `name`: the listener registered
\* on it, if any, runs before emit returns and calls watch() or stop().
Emit(s, name, payload) ==
    LET s0 == Log(s, EmitEv(name, payload))
    IN  IF s0.listener.on # name THEN s0
        ELSE IF s0.listener.does = "watch" THEN watch(s0)
        ELSE stop(s0)

IsEmit(e) == e.k = "emit"
Emitted(tr) == SelectSeq(tr, IsEmit)
Count(seq, Test(_)) == Len(SelectSeq(seq, Test))
EmitCount(tr, name) == Count(tr, LAMBDA e : e.k = "emit" /\ e.n = name)
Called(tr, name) == Count(tr, LAMBDA e : e.k = "call" /\ e.n = name) > 0

\* --------------------------------------------------- the host's timers
TimerIds(ts) == {ts[i].id : i \in DOMAIN ts}
\* Handles are positive; a cancelled timer's id may be handed out again.
FreshId(ts) == CHOOSE i \in 1..(Len(ts) + 1) :
    /\ i \notin TimerIds(ts)
    /\ \A j \in 1..(Len(ts) + 1) : j \notin TimerIds(ts) => i <= j

\* this[handleName] = setInterval(() => this.fn(), seconds * 1000)
SetIntervalInto(s, handleName, fn, seconds) ==
    LET id == FreshId(s.timers)
        t == [id |-> id, fn |-> fn, period |-> seconds, remaining |-> seconds]
    IN  [s EXCEPT !.timers = Append(@, t), ![handleName] = id]

\* clearInterval(id)
ClearInterval(ts, id) == SelectSeq(ts, LAMBDA t : t.id # id)

\* safeClearInterval() that resets the handle without calling clearInterval.
safeClearInterval_HandleOnly(s, handleName) ==
    IF s[handleName] # Null
    THEN [s EXCEPT ![handleName] = Null]
    ELSE s

safeClearInterval(s, handleName) ==
    IF s[handleName] # Null
    THEN [s EXCEPT !.timers = ClearInterval(@, s[handleName]),
                   ![handleName] = Null]
    ELSE s

\* ----------------------------------------------------- lifecycle methods
\* timeout() that forgets `this.countdown = 0`.
timeout_KeepsCountdown(s) ==
    LET s0 == Call(s, "timeout")
        s1 == safeClearInterval(s0, "idleHandle")
        s2 == safeClearInterval(s1, "timeoutHandle")
        s3 == [s2 EXCEPT !.idling = TRUE, !.running = FALSE]
    IN  Emit(s3, "onTimeout", Null)

timeout(s) ==
    LET s0 == Call(s, "timeout")
        s1 == safeClearInterval(s0, "idleHandle")
        s2 == safeClearInterval(s1, "timeoutHandle")
        s3 == [s2 EXCEPT !.idling = TRUE, !.running = FALSE, !.countdown = 0]
    IN  Emit(s3, "onTimeout", Null)

\* `this.countdown <= 0` is false while countdown is undefined.
LeqZero(c) == c # Undefined /\ c <= 0
\* `this.countdown--`
Decrement(c) == IF c = Undefined THEN Undefined ELSE c - 1

\* doCountdown() that tests `this.countdown < 0`: one more warning, payload 0.
doCountdown_StrictlyNegative(s) ==
    LET s0 == Call(s, "doCountdown")
    IN  IF ~s0.idling THEN s0
        ELSE IF s0.countdown # Undefined /\ s0.countdown < 0 THEN timeout(s0)
        ELSE [Emit(s0, "onTimeoutWarning", s0.countdown)
                 EXCEPT !.countdown = Decrement(@)]

doCountdown(s) ==
    LET s0 == Call(s, "doCountdown")
    IN  IF ~s0.idling THEN s0
        ELSE IF LeqZero(s0.countdown) THEN timeout(s0)
        ELSE [Emit(s0, "onTimeoutWarning", s0.countdown)
                 EXCEPT !.countdown = Decrement(@)]

\* toggleState() that leaves the first countdown step to the repeating timer.
toggleState_NoImmediateStep(s) ==
    LET s0 == Call(s, "toggleState")
        s1 == [s0 EXCEPT !.idling = ~@]
        s2 == IF s1.idling
              THEN LET a == Emit(s1, "onIdleStart", Null)
                   IN  IF a.timeoutVal > 0
                       THEN LET b == [a EXCEPT !.countdown = a.timeoutVal]
                            IN  SetIntervalInto(b, "timeoutHandle", "doCountdown",
                                                CountdownPeriod)
                       ELSE a
              ELSE Emit(s1, "onIdleEnd", Null)
    IN  safeClearInterval(s2, "idleHandle")

\* toggleState() without the trailing safeClearInterval('idleHandle').
toggleState_KeepsIdleTimer(s) ==
    LET s0 == Call(s, "toggleState")
        s1 == [s0 EXCEPT !.idling = ~@]
    IN  IF s1.idling
        THEN LET a == Emit(s1, "onIdleStart", Null)
             IN  IF a.timeoutVal > 0
                 THEN LET b == [a EXCEPT !.countdown = a.timeoutVal]
                          c == doCountdown(b)
                      IN  SetIntervalInto(c, "timeoutHandle", "doCountdown",
                                          CountdownPeriod)
                 ELSE a
        ELSE Emit(s1, "onIdleEnd", Null)

\* toggleState() that runs the first countdown step and schedules no timer.
toggleState_NoCountdownTimer(s) ==
    LET s0 == Call(s, "toggleState")
        s1 == [s0 EXCEPT !.idling = ~@]
        s2 == IF s1.idling
              THEN LET a == Emit(s1, "onIdleStart", Null)
                   IN  IF a.timeoutVal > 0
                       THEN doCountdown([a EXCEPT !.countdown = a.timeoutVal])
                       ELSE a
              ELSE Emit(s1, "onIdleEnd", Null)
    IN  safeClearInterval(s2, "idleHandle")

\* toggleState() that starts the countdown whatever the timeout duration is.
toggleState_CountdownAlways(s) ==
    LET s0 == Call(s, "toggleState")
        s1 == [s0 EXCEPT !.idling = ~@]
        s2 == IF s1.idling
              THEN LET a == Emit(s1, "onIdleStart", Null)
                       b == [a EXCEPT !.countdown = a.timeoutVal]
                       c == doCountdown(b)
                   IN  SetIntervalInto(c, "timeoutHandle", "doCountdown",
                                       CountdownPeriod)
              ELSE Emit(s1, "onIdleEnd", Null)
    IN  safeClearInterval(s2, "idleHandle")

\* toggleState() that leaves idling without emitting onIdleEnd.
toggleState_SilentEnd(s) ==
    LET s0 == Call(s, "toggleState")
        s1 == [s0 EXCEPT !.idling = ~@]
        s2 == IF s1.idling
              THEN LET a == Emit(s1, "onIdleStart", Null)
                   IN  IF a.timeoutVal > 0
                       THEN LET b == [a EXCEPT !.countdown = a.timeoutVal]
                                c == doCountdown(b)
                            IN  SetIntervalInto(c, "timeoutHandle", "doCountdown",
                                                CountdownPeriod)
                       ELSE a
              ELSE s1
    IN  safeClearInterval(s2, "idleHandle")

toggleState(s) ==
    LET s0 == Call(s, "toggleState")
        s1 == [s0 EXCEPT !.idling = ~@]
        s2 == IF s1.idling
              THEN LET a == Emit(s1, "onIdleStart", Null)
                   IN  IF a.timeoutVal > 0
                       THEN LET b == [a EXCEPT !.countdown = a.timeoutVal]
                                c == doCountdown(b)
                            IN  SetIntervalInto(c, "timeoutHandle", "doCountdown",
                                                CountdownPeriod)
                       ELSE a
              ELSE Emit(s1, "onIdleEnd", Null)
    IN  safeClearInterval(s2, "idleHandle")

\* watch() that cancels the idle timer only.
watch_KeepsCountdownTimer(s) ==
    LET s0 == Call(s, "watch")
        s1 == safeClearInterval(s0, "idleHandle")
        s3 == IF s1.idling THEN toggleState(s1) ELSE s1
        s4 == [s3 EXCEPT !.running = TRUE]
    IN  SetIntervalInto(s4, "idleHandle", "toggleState", s4.idle)

watch(s) ==
    LET s0 == Call(s, "watch")
        s1 == safeClearInterval(s0, "idleHandle")
        s2 == safeClearInterval(s1, "timeoutHandle")
        s3 == IF s2.idling THEN toggleState(s2) ELSE s2
        s4 == [s3 EXCEPT !.running = TRUE]
    IN  SetIntervalInto(s4, "idleHandle", "toggleState", s4.idle)

\* stop() that cancels the countdown timer only.
stop_KeepsIdleTimer(s) ==
    LET s0 == Call(s, "stop")
        s2 == safeClearInterval(s0, "timeoutHandle")
    IN  [s2 EXCEPT !.idling = FALSE, !.running = FALSE]

\* stop() that forgets `this.idling = false`.
stop_LeavesIdling(s) ==
    LET s0 == Call(s, "stop")
        s1 == safeClearInterval(s0, "idleHandle")
        s2 == safeClearInterval(s1, "timeoutHandle")
    IN  [s2 EXCEPT !.running = FALSE]

stop(s) ==
    LET s0 == Call(s, "stop")
        s1 == safeClearInterval(s0, "idleHandle")
        s2 == safeClearInterval(s1, "timeoutHandle")
    IN  [s2 EXCEPT !.idling = FALSE, !.running = FALSE]

\* The resume condition of interrupt().
ShouldResume(s, force) ==
    \/ force = TRUE
    \/ s.autoResume = "idle"
    \/ (s.autoResume = "notIdle" /\ ~s.idling)

\* interrupt() whose resume condition leaves `force` out.
interrupt_ForceIgnored(s, force, eventArgs) ==
    LET s0 == Call(s, "interrupt")
    IN  IF ~s0.running THEN s0
        ELSE LET s1 == Emit(s0, "onInterrupt", eventArgs)
             IN  IF ShouldResume(s1, FALSE) THEN watch(s1) ELSE s1

\* interrupt() without the `if (!this.running) return;` guard.
interrupt_NoRunningGuard(s, force, eventArgs) ==
    LET s0 == Call(s, "interrupt")
        s1 == Emit(s0, "onInterrupt", eventArgs)
    IN  IF ShouldResume(s1, force) THEN watch(s1) ELSE s1

interrupt(s, force, eventArgs) ==
    LET s0 == Call(s, "interrupt")
    IN  IF ~s0.running THEN s0
        ELSE LET s1 == Emit(s0, "onInterrupt", eventArgs)
             IN  IF ShouldResume(s1, force) THEN watch(s1) ELSE s1

\* ------------------------------------------------ configuration methods
Return(s, v) == [s EXCEPT !.ret = v]
\* throw new Error(...)
Throw(s) == [s EXCEPT !.threw = TRUE]

getTimeout(s) == s.timeoutVal

setTimeout(s, seconds) ==
    LET s0 == Call(s, "setTimeout")
    IN  IF seconds = JsFalse
        THEN Return([s0 EXCEPT !.timeoutVal = 0], 0)
        ELSE IF seconds.type = "number" /\ seconds.val >= 0
        THEN Return([s0 EXCEPT !.timeoutVal = seconds.val], seconds.val)
        ELSE Throw(s0)

getIdle(s) == s.idle

\* setIdle() that restarts a pending idle timer with the new duration.
setIdle_Reschedules(s, seconds) ==
    LET s0 == Call(s, "setIdle")
    IN  IF seconds <= 0
        THEN Throw(s0)
        ELSE LET s1 == [s0 EXCEPT !.idle = seconds]
                 s2 == IF s1.idleHandle # Null
                       THEN SetIntervalInto(safeClearInterval(s1, "idleHandle"),
                                            "idleHandle", "toggleState", seconds)
                       ELSE s1
             IN  Return(s2, seconds)

\* setIdle() that tests `seconds < 0`: 0 is accepted.
setIdle_AcceptsZero(s, seconds) ==
    LET s0 == Call(s, "setIdle")
    IN  IF seconds < 0
        THEN Throw(s0)
        ELSE Return([s0 EXCEPT !.idle = seconds], seconds)

setIdle(s, seconds) ==
    LET s0 == Call(s, "setIdle")
    IN  IF seconds <= 0
        THEN Throw(s0)
        ELSE Return([s0 EXCEPT !.idle = seconds], seconds)

setAutoResume(s, value) == [Call(s, "setAutoResume") EXCEPT !.autoResume = value]

\* ---------------------------------------- Interrupt (one subscription)
\* new Interrupt(source): not yet listening, not yet attached.
NewInterrupt(src) == [source |-> src, active |-> FALSE, subscribed |-> FALSE]

\* sub.subscribe(fn): registers the controller's handler.
subscribe(sub) == [sub EXCEPT !.subscribed = TRUE]
\* sub.unsubscribe(): removes the handler for good.
unsubscribe(sub) == [sub EXCEPT !.subscribed = FALSE]

\* sub.resume(): calls the source's attach hook unless already active.
resumeHook(s, sub) ==
    IF sub.active THEN s
    ELSE [Log(s, HookEv("attach", sub.source))
             EXCEPT !.attached[sub.source] = @ + 1]
resume(sub) == [sub EXCEPT !.active = TRUE]

\* sub.pause(): calls the source's detach hook if active.
pauseHook(s, sub) ==
    IF sub.active
    THEN [Log(s, HookEv("detach", sub.source))
             EXCEPT !.attached[sub.source] = @ - 1]
    ELSE s
pause(sub) == [sub EXCEPT !.active = FALSE]

\* ---------------------------------------------- interrupt subscriptions
RECURSIVE PauseEach(_, _)
\* for (let sub of this.interrupts) { sub.pause(); sub.unsubscribe(); }
PauseEach(s, k) ==
    IF k > Len(s.interrupts) THEN s
    ELSE LET sub == s.interrupts[k]
             s1 == pauseHook(s, sub)
             s2 == [s1 EXCEPT !.interrupts[k] = unsubscribe(pause(sub))]
         IN  PauseEach(s2, k + 1)

\* clearInterrupts() that only truncates the list.
clearInterrupts_LengthOnly(s) ==
    LET s0 == Call(s, "clearInterrupts")
    IN  [s0 EXCEPT !.interrupts = <<>>,
                   !.dropped = @ \cup {s0.interrupts[k] : k \in DOMAIN s0.interrupts}]

\* `this.interrupts.length = 0` takes the Interrupt objects off the list; each
\* stays what pause() and unsubscribe() made of it.
clearInterrupts(s) ==
    LET s0 == Call(s, "clearInterrupts")
        s1 == PauseEach(s0, 1)
    IN  [s1 EXCEPT !.interrupts = <<>>,
                   !.dropped = @ \cup {s1.interrupts[k] : k \in DOMAIN s1.interrupts}]

RECURSIVE AddEach(_, _)
\* for (let source of sources) { new, subscribe, resume, push }
AddEach(s, sources) ==
    IF sources = <<>> THEN s
    ELSE LET sub0 == subscribe(NewInterrupt(Head(sources)))
             s1 == resumeHook(s, sub0)
             s2 == [s1 EXCEPT !.interrupts = Append(@, resume(sub0))]
         IN  AddEach(s2, Tail(sources))

\* setInterrupts() that does not clear the subscriptions there are.
setInterrupts_NoClear(s, sources) ==
    LET s0 == Call(s, "setInterrupts")
    IN  AddEach(s0, sources)

setInterrupts(s, sources) ==
    LET s0 == Call(s, "setInterrupts")
        s1 == clearInterrupts(s0)
    IN  AddEach(s1, sources)

getInterrupts(s) == s.interrupts

\* ngOnDestroy() that stops and leaves the subscriptions alone.
ngOnDestroy_StopOnly(s) ==
    LET s0 == Call(s, "ngOnDestroy")
    IN  stop(s0)

ngOnDestroy(s) ==
    LET s0 == Call(s, "ngOnDestroy")
        s1 == stop(s0)
    IN  clearInterrupts(s1)

RECURSIVE Forward(_, _, _, _)
\* source.onInterrupt.emit(args): every subscription of the source that is
\* listening and not paused hands the signal to self.interrupt(force, innerArgs).
Forward(s, k, src, innerArgs) ==
    IF k > Len(s.interrupts) THEN s
    ELSE LET sub == s.interrupts[k]
             s1 == IF sub.source = src /\ sub.subscribed /\ sub.active
                   THEN interrupt(s, FALSE, innerArgs)
                   ELSE s
         IN  Forward(s1, k + 1, src, innerArgs)

\* The Interrupt objects off the list that still listen to src and are not
\* paused.
Live(ds, src) == {d \in ds : d.source = src /\ d.subscribed /\ d.active}

RECURSIVE ForwardDropped(_, _, _)
\* An Interrupt object off the list forwards like one on it.
ForwardDropped(s, n, innerArgs) ==
    IF n = 0 THEN s
    ELSE ForwardDropped(interrupt(s, FALSE, innerArgs), n - 1, innerArgs)

\* MockInterruptSource.trigger(innerArgs): the handlers run in the order they
\* were registered, those of the objects off the list first.
trigger(s, src, innerArgs) ==
    LET s0 == Call(s, "trigger")
        s1 == ForwardDropped(s0, Cardinality(Live(s0.dropped, src)), innerArgs)
    IN  Forward(s1, 1, src, innerArgs)

\* ------------------------------------------------------------ the steps
\* isRunning() and isIdling() as they answer before a step.
Was == [running |-> running, idling |-> idling]

\* The state after a step is the record the operation computed.
Record(s, op, arg, external) ==
    /\ idle' = s.idle
    /\ timeoutVal' = s.timeoutVal
    /\ autoResume' = s.autoResume
    /\ interrupts' = s.interrupts
    /\ running' = s.running
    /\ idling' = s.idling
    /\ idleHandle' = s.idleHandle
    /\ timeoutHandle' = s.timeoutHandle
    /\ countdown' = s.countdown
    /\ timers' = s.timers
    /\ attached' = s.attached
    /\ dropped' = s.dropped
    /\ listener' = s.listener
    /\ trace' = s.trace
    /\ last' = [op |-> op, arg |-> arg, threw |-> s.threw, ret |-> s.ret, was |-> Was]
    /\ history' = IF external
                  THEN [quiet |-> (op = "watch"), fired |-> <<>>]
                  ELSE [history EXCEPT !.fired = Append(@, Emitted(s.trace))]

\* A step of an embedder that may go on calling.
Commit(s, op, arg, external) == Record(s, op, arg, external) /\ silent' = silent

\* The object as its field initializers leave it.
Constructed ==
    [idle |-> DefaultIdle, timeoutVal |-> DefaultTimeout, autoResume |-> "idle",
     interrupts |-> <<>>, running |-> FALSE, idling |-> FALSE,
     idleHandle |-> Null, timeoutHandle |-> Null, countdown |-> Undefined,
     timers |-> <<>>, attached |-> [src \in Sources |-> 0],
     dropped |-> {}, listener |-> NoListener,
     trace |-> <<>>, threw |-> FALSE, ret |-> Null]

\* The service once the embedder has constructed it, registered the listener
\* l (if any) and configured its two durations: new Idle(), onX.subscribe(l),
\* setIdle(i), setTimeout(t).
ConfiguredWith(i, t, l) ==
    LET s == setTimeout(setIdle([Constructed EXCEPT !.listener = l], i), JsNumber(t))
    IN  /\ idle = s.idle
        /\ timeoutVal = s.timeoutVal
        /\ autoResume = s.autoResume
        /\ interrupts = s.interrupts
        /\ running = s.running
        /\ idling = s.idling
        /\ idleHandle = s.idleHandle
        /\ timeoutHandle = s.timeoutHandle
        /\ countdown = s.countdown
        /\ timers = s.timers
        /\ attached = s.attached
        /\ dropped = s.dropped
        /\ listener = s.listener
        /\ silent = FALSE
        /\ trace = <<>>
        /\ last = [op |-> "new", arg |-> Null, threw |-> FALSE, ret |-> Null,
                   was |-> [running |-> FALSE, idling |-> FALSE]]
        /\ history = [quiet |-> FALSE, fired |-> <<>>]

Configured(i, t) == ConfiguredWith(i, t, NoListener)

Init == \E i \in 1..MaxIdle, t \in 0..MaxTimeout : Configured(i, t)

SourceLists == UNION {[1..n -> Sources] : n \in 0..MaxSubs}

SetTimeout == \E v \in TimeoutInputs : Commit(setTimeout(St, v), "setTimeout", v, TRUE)
SetIdle == \E v \in IdleInputs : Commit(setIdle(St, v), "setIdle", v, TRUE)
SetAutoResume ==
    \E v \in AutoResume : Commit(setAutoResume(St, v), "setAutoResume", v, TRUE)
SetInterrupts ==
    \E srcs \in SourceLists : Commit(setInterrupts(St, srcs), "setInterrupts", srcs, TRUE)
ClearInterrupts == Commit(clearInterrupts(St), "clearInterrupts", Null, TRUE)
Watch == Commit(watch(St), "watch", Null, TRUE)
Stop == Commit(stop(St), "stop", Null, TRUE)
Timeout == Commit(timeout(St), "timeout", Null, TRUE)
Interrupt ==
    \E force \in BOOLEAN, ea \in EventArgs :
        Commit(interrupt(St, force, ea), "interrupt",
               [force |-> force, eventArgs |-> ea], TRUE)
NgOnDestroy == Commit(ngOnDestroy(St), "ngOnDestroy", Null, TRUE)
Trigger ==
    \E src \in Sources, ea \in EventArgs :
        Commit(trigger(St, src, ea), "trigger",
               [source |-> src, eventArgs |-> ea], TRUE)

\* ------------------------------------------------------- the timer queue
Min(S) == CHOOSE x \in S : \A y \in S : x <= y
DueIndexes == {k \in DOMAIN timers : timers[k].remaining = 0}
\* The host runs the callbacks that are due in the order the timers were made.
NextDue == timers[Min(DueIndexes)]

\* An interval timer that its callback did not cancel is due again a period later.
Rearm(s, t) ==
    LET ts == s.timers
    IN  [s EXCEPT !.timers =
            [k \in DOMAIN ts |-> IF ts[k].id = t.id
                                 THEN [id |-> ts[k].id, fn |-> ts[k].fn,
                                       period |-> ts[k].period,
                                       remaining |-> ts[k].period]
                                 ELSE ts[k]]]

\* Virtual time moves on to the instant the next timer is due.
Advance ==
    /\ timers # <<>>
    /\ DueIndexes = {}
    /\ LET d == Min({timers[k].remaining : k \in DOMAIN timers})
       IN  timers' = [k \in DOMAIN timers |->
                        [timers[k] EXCEPT !.remaining = @ - d]]
    /\ trace' = <<>>
    /\ last' = [op |-> "advance", arg |-> Null, threw |-> FALSE, ret |-> Null,
                was |-> Was]
    /\ UNCHANGED <<idle, timeoutVal, autoResume, interrupts, running, idling,
                   idleHandle, timeoutHandle, countdown, attached, dropped,
                   listener, silent, history>>

\* setInterval(() => { this.toggleState(); }, this.idle * 1000) comes due.
IdleTimerFires ==
    /\ DueIndexes # {}
    /\ NextDue.fn = "toggleState"
    /\ Commit(Rearm(toggleState(St), NextDue), "idleTimer", Null, FALSE)

\* setInterval(() => { this.doCountdown(); }, 1000) comes due.
CountdownTimerFires ==
    /\ DueIndexes # {}
    /\ NextDue.fn = "doCountdown"
    /\ Commit(Rearm(doCountdown(St), NextDue), "countdownTimer", Null, FALSE)

\* The controller on its own: configuration, lifecycle calls, direct
\* interrupt() calls and the two timers.  No source is ever registered.
Next ==
    \/ SetTimeout
    \/ SetIdle
    \/ SetAutoResume
    \/ Watch
    \/ Stop
    \/ Timeout
    \/ Interrupt
    \/ Advance
    \/ IdleTimerFires
    \/ CountdownTimerFires

Spec == Init /\ [][Next]_vars

\* The controller with its interrupt sources: the subscription list, the
\* signals of the sources, the lifecycle calls, the timers and disposal, for
\* a one second idle duration and the timeout disabled or one second long.
InitSources == \E t \in {0, 1} : Configured(1, t)

NextSources ==
    \/ SetInterrupts
    \/ ClearInterrupts
    \/ Trigger
    \/ NgOnDestroy
    \/ SetAutoResume
    \/ Watch
    \/ Stop
    \/ Timeout
    \/ Advance
    \/ IdleTimerFires
    \/ CountdownTimerFires

SpecSources == InitSources /\ [][NextSources]_vars

\* The embedder's last call: a watch() after which it calls nothing more.
WatchLast ==
    /\ ~silent
    /\ Record(watch(St), "watch", Null, TRUE)
    /\ silent' = TRUE

\* The configured controller with an embedder that makes lifecycle calls and
\* at some point its last one, and a host that keeps its clock and its
\* timers going: a due callback is run, and time passes while a timer is
\* pending.
NextLive ==
    \/ ~silent /\ Watch
    \/ ~silent /\ Stop
    \/ ~silent /\ Timeout
    \/ WatchLast
    \/ Advance
    \/ IdleTimerFires
    \/ CountdownTimerFires

\* The emitters of the lifecycle notifications and what a listener on one of
\* them may call.
ListenerOn == {"onIdleStart", "onIdleEnd", "onTimeoutWarning", "onTimeout"}
ListenerDoes == {"watch", "stop"}

\* The embedder registered one listener before configuring the service.
InitReentrant ==
    \E on \in ListenerOn, does \in ListenerDoes, t \in 0..MaxTimeout :
        ConfiguredWith(1, t, [on |-> on, does |-> does])

\* The controller with a listener that calls back into it.  A timer that no
\* call cancels fires for ever: the callbacks between two calls are capped.
NextReentrant ==
    \/ Watch
    \/ Stop
    \/ Timeout
    \/ Advance
    \/ Len(history.fired) < MaxFired /\ IdleTimerFires
    \/ Len(history.fired) < MaxFired /\ CountdownTimerFires

SpecReentrant == InitReentrant /\ [][NextReentrant]_vars

\* What a step of time or a timer callback changes: Advance moves every
\* timer, the idle timer's callback flips idling, the countdown timer's
\* callback decrements countdown or ends running.
clock == <<timers, running, idling, countdown>>

\* The idle duration set to MaxIdle, the timeout duration to any value.
InitLive == \E t \in 0..MaxTimeout : Configured(MaxIdle, t)

SpecLive ==
    /\ InitLive
    /\ [][NextLive]_vars
    /\ WF_clock(Advance)
    /\ WF_clock(IdleTimerFires)
    /\ WF_clock(CountdownTimerFires)

\* ------------------------------------------------------------ properties
\* Vocabulary of the properties below.
IdleStart == EmitEv("onIdleStart", Null)
IdleEnd == EmitEv("onIdleEnd", Null)
TimedOut == EmitEv("onTimeout", Null)
Warning(n) == EmitEv("onTimeoutWarning", n)
Observed(ea) == EmitEv("onInterrupt", ea)

\* The timer table holds exactly one timer: the idle timer, a full period of
\* d seconds away, and idleHandle refers to it.
OneIdleTimerPending(ts, handle, d) ==
    /\ Len(ts) = 1
    /\ ts[1].fn = "toggleState"
    /\ ts[1].period = d
    /\ ts[1].remaining = d
    /\ handle = ts[1].id
    /\ handle # Null

NoTimerPending(ts, h1, h2) == ts = <<>> /\ h1 = Null /\ h2 = Null

TimerSteps == {"advance", "idleTimer", "countdownTimer"}

\* C1: an interrupt received while running emits interrupt-observed exactly
\* once (with the payload it was given) and calls watch() exactly when force
\* is true, or the policy is AutoResume.idle, or the policy is
\* AutoResume.notIdle and the controller is not idling.  When watch() is
\* called the idle window is reset; otherwise running, idling, countdown and
\* both timers stay as they were and nothing else is emitted.
C1_Step ==
    (last'.op = "interrupt" /\ running) =>
        LET force == last'.arg.force
            resumes == \/ force
                       \/ autoResume = "idle"
                       \/ (autoResume = "notIdle" /\ ~idling)
        IN  /\ EmitCount(trace', "onInterrupt") = 1
            /\ Head(Emitted(trace')) = Observed(last'.arg.eventArgs)
            /\ Called(trace', "watch") <=> resumes
            /\ resumes =>
                  /\ running' /\ ~idling'
                  /\ OneIdleTimerPending(timers', idleHandle', idle)
                  /\ timeoutHandle' = Null
            /\ ~resumes =>
                  /\ UNCHANGED <<running, idling, countdown, timers,
                                 idleHandle, timeoutHandle>>
                  /\ Emitted(trace') = <<Observed(last'.arg.eventArgs)>>
C1_InterruptResumesByPolicy == [][C1_Step]_vars

\* C1 witness: policy notIdle, idling, no force: the interrupt was observed,
\* watch() was not called and the controller is still idling.
C1_Witness ==
    /\ last.op = "interrupt"
    /\ ~last.arg.force
    /\ autoResume = "notIdle"
    /\ last.was.running /\ last.was.idling
    /\ running /\ idling
    /\ EmitCount(trace, "onInterrupt") = 1
    /\ ~Called(trace, "watch")

\* C2: interrupt() while not running emits nothing and changes nothing, for
\* every policy and with force too; a timed-out controller (not running,
\* idling) leaves that state only by watch() or stop().
C2_Step ==
    /\ (last'.op = "interrupt" /\ ~running) =>
          /\ Emitted(trace') = <<>>
          /\ UNCHANGED fields
    /\ (~running /\ idling /\ ~(~running' /\ idling')) =>
          last'.op \in {"watch", "stop"}
C2_InterruptIgnoredWhenNotRunning == [][C2_Step]_vars

\* C2 witness: a forced interrupt arrived in the timed-out state and the
\* controller is still timed out, having emitted nothing.
C2_Witness ==
    /\ last.op = "interrupt"
    /\ last.arg.force
    /\ ~last.was.running /\ last.was.idling
    /\ ~running /\ idling
    /\ trace = <<CallEv("interrupt", Null)>>

\* What the k-th timer callback since watch() emits in an undisturbed run
\* with timeout duration T > 0, as the code has it: idle-start together with
\* timeout-warning(T), then timeout-warning(T-1) .. timeout-warning(1), then
\* timeout.
CountdownScript(T) ==
    [k \in 1..(T + 1) |->
        IF k = 1 THEN <<IdleStart, Warning(T)>>
        ELSE IF k <= T THEN <<Warning(T - (k - 1))>>
        ELSE <<TimedOut>>]

\* What the claim as written has the callbacks emit: idle-start, then
\* timeout-warning(T-1) .. timeout-warning(0), then timeout.
CountdownScriptAsClaimed(T) ==
    [k \in 1..(T + 2) |->
        IF k = 1 THEN <<IdleStart>>
        ELSE IF k <= T + 1 THEN <<Warning(T - (k - 1))>>
        ELSE <<TimedOut>>]

IsPrefix(a, b) == Len(a) <= Len(b) /\ \A k \in 1..Len(a) : a[k] = b[k]

\* Drops timeout-warning(T) from the first callback's emissions: the claim as
\* written is silent about what else the idle timer's callback emits.
WithoutFirstWarning(fired, T) ==
    [k \in 1..Len(fired) |->
        IF k = 1 THEN SelectSeq(fired[1], LAMBDA e : e # Warning(T))
        ELSE fired[k]]

\* C3 as written: with idleDuration 1 and timeoutDuration 3, after watch() and
\* no other call, the idle timer emits idle-start, the countdown ticks emit
\* timeout-warning(2), (1), (0) in that order and only the tick after
\* timeout-warning(0) emits timeout and ends running.
C3_AsWritten ==
    (history.quiet /\ idle = 1 /\ timeoutVal = 3) =>
        /\ IsPrefix(WithoutFirstWarning(history.fired, 3), CountdownScriptAsClaimed(3))
        /\ ~running => Len(history.fired) = 5

\* C3 amended: after watch() and no other call, with timeout duration T > 0,
\* the idle timer's callback emits idle-start and timeout-warning(T); the k-th
\* countdown tick emits timeout-warning(T-k) for k = 1..T-1; the T-th tick
\* emits timeout and ends running; timeout-warning(0) is never emitted, and
\* running holds until that T-th tick.
C3_CountdownSequence ==
    (history.quiet /\ timeoutVal > 0) =>
        /\ IsPrefix(history.fired, CountdownScript(timeoutVal))
        /\ running <=> Len(history.fired) <= timeoutVal
        /\ running => (idling <=> history.fired # <<>>)

\* C3 witness: the run of the scenario (idle 1, timeout 3) has completed.
C3_Witness ==
    /\ history.quiet
    /\ idle = 1
    /\ timeoutVal = 3
    /\ history.fired = CountdownScript(3)
    /\ ~running /\ idling

\* C4: when the idle timer fires with the timeout disabled, idle-start is all
\* that is emitted and no countdown timer is scheduled; from then on the
\* controller is running and idling with no timer pending, so no step of
\* time can happen, and it leaves that state only by watch(), stop(),
\* timeout() or an interrupt that resumes.
C4_Step ==
    /\ (last'.op = "idleTimer" /\ timeoutVal = 0) =>
          /\ Emitted(trace') = <<IdleStart>>
          /\ NoTimerPending(timers', idleHandle', timeoutHandle')
          /\ running' /\ idling'
    /\ (running /\ idling /\ timers = <<>>) =>
          /\ last'.op \notin TimerSteps
          /\ EmitCount(trace', "onTimeoutWarning") = 0
          /\ EmitCount(trace', "onIdleStart") = 0
          /\ EmitCount(trace', "onTimeout") > 0 => last'.op = "timeout"
          /\ IF running' /\ idling'
             THEN timers' = <<>>
             ELSE \/ last'.op \in {"watch", "stop", "timeout"}
                  \/ last'.op = "interrupt" /\ Called(trace', "watch")
C4_NoCountdownWhenTimeoutDisabled == [][C4_Step]_vars

\* C4 witness: the idle timer has just fired with the timeout disabled.
C4_Witness ==
    /\ last.op = "idleTimer"
    /\ timeoutVal = 0
    /\ running /\ idling
    /\ timers = <<>>
    /\ Emitted(trace) = <<IdleStart>>

\* C5: watch() from any state ends running and not idling, with exactly one
\* idle timer pending for the current idle duration and no countdown timer;
\* it emits idle-end once if the controller was idling and nothing otherwise.
C5_Step ==
    (last'.op = "watch") =>
        /\ running' /\ ~idling'
        /\ OneIdleTimerPending(timers', idleHandle', idle)
        /\ timeoutHandle' = Null
        /\ Emitted(trace') = IF idling THEN <<IdleEnd>> ELSE <<>>
C5_WatchRestartsIdleWindow == [][C5_Step]_vars

\* C5 witness: watch() was called during a countdown (running, idling, the
\* countdown timer pending) and emitted idle-end.
C5_Witness ==
    /\ last.op = "watch"
    /\ last.was.running /\ last.was.idling
    /\ countdown > 0
    /\ Emitted(trace) = <<IdleEnd>>
    /\ Len(timers) = 1

\* The fields of the object and the timer table, without the step's record.
Obj(s) ==
    <<s.idle, s.timeoutVal, s.autoResume, s.interrupts, s.running, s.idling,
      s.idleHandle, s.timeoutHandle, s.countdown, s.timers, s.attached,
      s.dropped>>

\* C6: stop() from any state ends not running and not idling with no timer
\* pending and emits nothing; a second stop() changes nothing; and while the
\* controller is stopped no timer callback runs (none until the next watch()).
C6_Step ==
    /\ (last'.op = "stop") =>
          /\ ~running' /\ ~idling'
          /\ NoTimerPending(timers', idleHandle', timeoutHandle')
          /\ Emitted(trace') = <<>>
          /\ Obj(stop(St')) = Obj(St')
    /\ (~running /\ ~idling) =>
          /\ last'.op \notin TimerSteps
          /\ timers' # <<>> => Called(trace', "watch")
C6_StopSilentAndIdempotent == [][C6_Step]_vars

\* C6 witness: stop() was called during a countdown (running and idling) and
\* emitted nothing, idle-end included.
C6_Witness ==
    /\ last.op = "stop"
    /\ last.was.running /\ last.was.idling
    /\ countdown > 0
    /\ ~running /\ ~idling
    /\ timers = <<>>
    /\ Emitted(trace) = <<>>

\* C7: timeout() from any state, stopped and timed out included, ends not
\* running and idling with countdown 0 and no timer pending, and emits one
\* timeout notification and nothing else.
C7_Step ==
    (last'.op = "timeout") =>
        /\ ~running' /\ idling'
        /\ countdown' = 0
        /\ NoTimerPending(timers', idleHandle', timeoutHandle')
        /\ Emitted(trace') = <<TimedOut>>
C7_ForcedTimeout == [][C7_Step]_vars

\* C7 witness: timeout() was called on a stopped controller that had never
\* counted down; it is now timed out and emitted no idle-start.
C7_Witness ==
    /\ last.op = "timeout"
    /\ ~last.was.running /\ ~last.was.idling
    /\ ~running /\ idling
    /\ countdown = 0
    /\ Emitted(trace) = <<TimedOut>>

\* How often a hook of the source was called during the step.
HookCount(tr, kind, src) == Count(tr, LAMBDA e : e.k = kind /\ e.v = src)
\* The subscriptions of the source that are attached.
ActiveSubs(subs, src) ==
    {k \in DOMAIN subs : subs[k].source = src /\ subs[k].active}
IsHook(e) == e.k \in {"attach", "detach"}
Hooks(tr) == SelectSeq(tr, IsHook)

\* C8: after disposal (ngOnDestroy: stop() then clearInterrupts()) no timer
\* is pending, the subscription list is empty, no source is attached, and the
\* detach hook of every source ran once for each of its subscriptions that
\* was active before, and no attach hook ran.
C8_Step ==
    (last'.op = "ngOnDestroy") =>
        /\ NoTimerPending(timers', idleHandle', timeoutHandle')
        /\ ~running'
        /\ interrupts' = <<>>
        /\ \A src \in Sources :
              /\ attached'[src] = 0
              /\ HookCount(trace', "detach", src) =
                    Cardinality(ActiveSubs(interrupts, src))
              /\ HookCount(trace', "attach", src) = 0
C8_DisposalReleasesEverything == [][C8_Step]_vars

\* C8 witness: disposal of a running controller with two subscriptions of the
\* same source: that source's detach hook ran twice, once for each.
C8_Witness ==
    /\ last.op = "ngOnDestroy"
    /\ last.was.running
    /\ HookCount(trace, "detach", 1) = 2
    /\ attached[1] = 0
    /\ interrupts = <<>>
    /\ timers = <<>>

\* C9: during setInterrupts(sources) every subscription there was is detached
\* before any new one is attached (in the order of the hook calls no detach
\* follows an attach, and every old active subscription is detached), and
\* afterwards the list holds one active, listening subscription per supplied
\* source, in the supplied order.
C9_Step ==
    (last'.op = "setInterrupts") =>
        LET sources == last'.arg
            hooks == Hooks(trace')
            old == Len(interrupts)
        IN  /\ Len(hooks) = old + Len(sources)
            /\ \A k \in 1..Len(hooks) :
                  IF k <= old
                  THEN hooks[k] = HookEv("detach", interrupts[k].source)
                  ELSE hooks[k] = HookEv("attach", sources[k - old])
            /\ interrupts' =
                  [k \in 1..Len(sources) |->
                      [source |-> sources[k], active |-> TRUE, subscribed |-> TRUE]]
            /\ \A src \in Sources :
                  attached'[src] = Cardinality(ActiveSubs(interrupts', src))
C9_SetInterruptsDetachesBeforeAttaching == [][C9_Step]_vars

\* C9 witness: setInterrupts(<<2, 1>>) replaced a registered set: a detach and
\* then the two attaches were made, and the list holds the sources in order.
C9_Witness ==
    /\ last.op = "setInterrupts"
    /\ last.arg = <<2, 1>>
    /\ Len(Hooks(trace)) > 2
    /\ Head(Hooks(trace)).k = "detach"
    /\ Len(interrupts) = 2
    /\ interrupts[1].source = 2 /\ interrupts[2].source = 1

\* C10: setIdle(s) stores and returns s when s > 0 (and getIdle() answers s)
\* and throws when s <= 0; setTimeout(v) stores 0 for false, v for a number
\* v >= 0, and throws for a negative number or any other value.  A call that
\* throws changes no field and no timer.
C10_Step ==
    /\ (last'.op = "setIdle") =>
          LET s == last'.arg
          IN  IF s > 0
              THEN /\ ~last'.threw
                   /\ last'.ret = s
                   /\ idle' = s
                   /\ getIdle(St') = s
                   /\ UNCHANGED <<timeoutVal, running, idling, countdown, timers,
                                  idleHandle, timeoutHandle>>
              ELSE /\ last'.threw
                   /\ UNCHANGED fields
    /\ (last'.op = "setTimeout") =>
          LET v == last'.arg
          IN  IF v.type = "boolean" /\ v.val = 0
              THEN ~last'.threw /\ timeoutVal' = 0 /\ last'.ret = 0
              ELSE IF v.type = "number" /\ v.val >= 0
              THEN ~last'.threw /\ timeoutVal' = v.val /\ last'.ret = v.val
                   /\ getTimeout(St') = v.val
              ELSE last'.threw /\ UNCHANGED fields
    /\ (last'.op = "setTimeout" /\ ~last'.threw) =>
          UNCHANGED <<idle, running, idling, countdown, timers,
                      idleHandle, timeoutHandle>>
C10_SettersValidate == [][C10_Step]_vars

\* C10 witness: setTimeout(-5) threw in the middle of a countdown and left
\* the timeout duration and the countdown as they were.
C10_Witness ==
    /\ last.op = "setTimeout"
    /\ last.arg = JsNumber(-5)
    /\ last.threw
    /\ running /\ idling
    /\ timeoutVal > 0
    /\ timers # <<>>

\* C11 as written: every step that takes idling from false to true emits
\* idle-start, and every step that takes it from true to false emits idle-end.
C11_AsWritten_Step ==
    /\ (~idling /\ idling') => EmitCount(trace', "onIdleStart") = 1
    /\ (idling /\ ~idling') => EmitCount(trace', "onIdleEnd") = 1
C11_AsWritten == [][C11_AsWritten_Step]_vars

\* C11 amended: idle-start is emitted exactly by the steps that take idling
\* from false to true other than timeout(), and idle-end exactly by the steps
\* that take idling from true to false other than stop() (and ngOnDestroy(),
\* which calls it); timeout() enters idling and stop() leaves it silently, so
\* the two notifications need not alternate.
C11_Step ==
    /\ EmitCount(trace', "onIdleStart") =
          IF ~idling /\ idling' /\ last'.op # "timeout" THEN 1 ELSE 0
    /\ EmitCount(trace', "onIdleEnd") =
          IF idling /\ ~idling' /\ last'.op \notin {"stop", "ngOnDestroy"} THEN 1 ELSE 0
    /\ (last'.op = "timeout" /\ ~idling) => idling'
    /\ (last'.op = "stop" /\ idling) => ~idling'
C11_IdleNotificationsFollowToggle == [][C11_Step]_vars

\* C11 witness: an interrupt that resumes took the running controller out of
\* idling, and idle-end was emitted once.
C11_Witness ==
    /\ last.op = "interrupt"
    /\ last.was.running /\ last.was.idling
    /\ running /\ ~idling
    /\ EmitCount(trace, "onIdleEnd") = 1

CountdownTimerPending(ts) == \E k \in DOMAIN ts : ts[k].fn = "doCountdown"
IdleTimerPending(ts) == \E k \in DOMAIN ts : ts[k].fn = "toggleState"

\* C13: in every reachable state, also after setTimeout(0) or setTimeout(false)
\* during a countdown, a countdown timer is pending only if the controller is
\* idling and the stored timeout duration is greater than 0.
C13_CountdownTimerOnlyWhenEnabled ==
    CountdownTimerPending(timers) => (idling /\ timeoutVal > 0)

\* C14: whenever the controller is not running and idling (timed out), the
\* countdown is 0 and no timer is pending; a step enters that state only by
\* running timeout() (called directly or by the countdown step); and stop()
\* always ends with idling false.
C14_Step ==
    /\ (~running' /\ idling') =>
          /\ countdown' = 0
          /\ NoTimerPending(timers', idleHandle', timeoutHandle')
    /\ (~(~running /\ idling) /\ ~running' /\ idling') => Called(trace', "timeout")
    /\ (last'.op = "stop") => (~running' /\ ~idling')
C14_TimedOutOnlyByTimeout == [][C14_Step]_vars

\* C14 witness: the countdown step found the countdown at 0 and called
\* timeout(): the controller is timed out with nothing pending.
C14_Witness ==
    /\ last.op = "countdownTimer"
    /\ last.was.running /\ last.was.idling
    /\ Called(trace, "timeout")
    /\ ~running /\ idling
    /\ countdown = 0
    /\ timers = <<>>

\* The number of timeout-warning notifications the timer callbacks emitted.
RECURSIVE WarningTotal(_)
WarningTotal(fired) ==
    IF fired = <<>> THEN 0
    ELSE EmitCount(Head(fired), "onTimeoutWarning") + WarningTotal(Tail(fired))

\* C15 as written: after watch() and no other call, with timeout duration
\* T > 0, the idle timer's callback emits idle-start and the first
\* timeout-warning together, and the countdown that ran to its timeout
\* emitted T + 1 timeout-warnings.
C15_AsWritten ==
    (history.quiet /\ timeoutVal > 0) =>
        /\ history.fired # <<>> =>
              history.fired[1] = <<IdleStart, Warning(timeoutVal)>>
        /\ ~running => WarningTotal(history.fired) = timeoutVal + 1

\* C15 amended: after watch() and no other call, with timeout duration T > 0,
\* the idle timer's callback emits idle-start and timeout-warning(T) itself,
\* leaving the countdown at T - 1 and the repeating timer a full second away;
\* the countdown that ran to its timeout emitted T timeout-warnings, the
\* last of them timeout-warning(1), and the timeout notification after them.
C15_FirstWarningWithIdleStart ==
    (history.quiet /\ timeoutVal > 0) =>
        /\ history.fired # <<>> =>
              history.fired[1] = <<IdleStart, Warning(timeoutVal)>>
        /\ (last.op = "idleTimer") =>
              /\ countdown = timeoutVal - 1
              /\ Len(timers) = 1
              /\ timers[1].fn = "doCountdown"
              /\ timers[1].remaining = CountdownPeriod
        /\ ~running =>
              /\ WarningTotal(history.fired) = timeoutVal
              /\ Len(history.fired) = timeoutVal + 1
              /\ history.fired[timeoutVal] \in
                    {<<Warning(1)>>, <<IdleStart, Warning(1)>>}
              /\ history.fired[timeoutVal + 1] = <<TimedOut>>

\* C15 witness: a countdown of 2 ran to its timeout after an uninterrupted
\* idle window: two warnings, the first with idle-start.
C15_Witness ==
    /\ history.quiet
    /\ timeoutVal = 2
    /\ ~running /\ idling
    /\ history.fired[1] = <<IdleStart, Warning(2)>>
    /\ WarningTotal(history.fired) = 2

TimersRunning(ts, fn) == {k \in DOMAIN ts : ts[k].fn = fn}

\* C16: in every reachable state at most one idle timer and at most one
\* countdown timer are scheduled, the idle timer is the one idleHandle refers
\* to and the countdown timer the one timeoutHandle refers to, so no
\* scheduled timer is without a handle.
C16_TimersAreReferenced ==
    /\ Cardinality(TimersRunning(timers, "toggleState")) <= 1
    /\ Cardinality(TimersRunning(timers, "doCountdown")) <= 1
    /\ \A k \in TimersRunning(timers, "toggleState") : timers[k].id = idleHandle
    /\ \A k \in TimersRunning(timers, "doCountdown") : timers[k].id = timeoutHandle
    /\ \A k \in DOMAIN timers :
          /\ timers[k].fn \in {"toggleState", "doCountdown"}
          /\ timers[k].id # Null

\* C16 witness: watch() was called during a countdown; the countdown timer is
\* gone and the one timer scheduled is the new idle timer.
C16_Witness ==
    /\ last.op = "watch"
    /\ last.was.running /\ last.was.idling
    /\ EmitCount(trace, "onIdleEnd") = 1
    /\ timeoutVal > 0
    /\ timeoutHandle = Null
    /\ Len(timers) = 1
    /\ timers[1].fn = "toggleState"
    /\ timers[1].id = idleHandle

\* C18: in every reachable state (no listener calls back into the
\* controller) an idle timer is scheduled exactly when the controller is
\* running and not idling, a countdown timer is scheduled only when it is
\* running and idling, the two are never scheduled together, and nothing is
\* scheduled while it is not running.
C18_TimersMatchState ==
    /\ IdleTimerPending(timers) <=> (running /\ ~idling)
    /\ CountdownTimerPending(timers) => (running /\ idling)
    /\ ~(IdleTimerPending(timers) /\ CountdownTimerPending(timers))
    /\ ~running => timers = <<>>

\* C18 witness: the idle timer fired and started a countdown: running and
\* idling, the countdown timer scheduled and the idle timer gone.
C18_Witness ==
    /\ last.op = "idleTimer"
    /\ running /\ idling
    /\ CountdownTimerPending(timers)
    /\ ~IdleTimerPending(timers)
    /\ idleHandle = Null

\* The period of the scheduled idle timer (Null when there is none).
IdlePeriod(ts) ==
    IF IdleTimerPending(ts)
    THEN ts[CHOOSE k \in DOMAIN ts : ts[k].fn = "toggleState"].period
    ELSE Null

\* C19: a step that calls watch() leaves one idle timer whose period is the
\* idle duration stored at that moment, a full period away; no step that
\* does not call watch() changes the period of a pending idle timer; time
\* never runs past a due timer; idle-start is emitted only by the idle
\* timer's callback, when its whole period has elapsed; and setIdle,
\* setTimeout and setAutoResume change neither the timers, nor the handles,
\* nor the countdown in progress.
C19_Step ==
    /\ Called(trace', "watch") => OneIdleTimerPending(timers', idleHandle', idle)
    /\ (IdleTimerPending(timers) /\ IdleTimerPending(timers')
          /\ ~Called(trace', "watch")) => IdlePeriod(timers') = IdlePeriod(timers)
    /\ \A k \in DOMAIN timers' :
          timers'[k].remaining >= 0 /\ timers'[k].remaining <= timers'[k].period
    /\ EmitCount(trace', "onIdleStart") > 0 =>
          /\ last'.op = "idleTimer"
          /\ \E k \in DOMAIN timers :
                timers[k].fn = "toggleState" /\ timers[k].remaining = 0
    /\ (last'.op \in {"setIdle", "setTimeout", "setAutoResume"}) =>
          /\ timers' = timers
          /\ idleHandle' = idleHandle
          /\ timeoutHandle' = timeoutHandle
          /\ countdown' = countdown
          /\ running' = running /\ idling' = idling
C19_IdlePeriodFixedAtWatch == [][C19_Step]_vars

\* C19 witness: setIdle(1) was accepted while the idle timer scheduled by a
\* watch() with idle duration 2 is pending; the timer still has period 2.
C19_Witness ==
    /\ last.op = "setIdle"
    /\ ~last.threw
    /\ idle = 1
    /\ running /\ ~idling
    /\ IdlePeriod(timers) = 2

\* The positions of the list whose subscription is on source src.
SubsOn(subs, src) == {k \in DOMAIN subs : subs[k].source = src}

\* C17: a signal of a source reaches the controller once per subscription the
\* current list holds on that source and never through a subscription that
\* clearInterrupts() or setInterrupts() took off the list: when the list holds
\* none on the source, the signal emits nothing and changes no field, also
\* while the controller is running.  No Interrupt object off the list is
\* left listening or attached.  clearInterrupts() on an empty list changes
\* nothing and calls no detach hook.
C17_Step ==
    /\ (last'.op = "trigger") =>
          LET src == last'.arg.source
              n == Cardinality(SubsOn(interrupts, src))
          IN  /\ EmitCount(trace', "onInterrupt") = IF running THEN n ELSE 0
              /\ n = 0 => (Emitted(trace') = <<>> /\ UNCHANGED fields)
    /\ \A src \in Sources : Live(dropped', src) = {}
    /\ \A d \in dropped' : ~d.active /\ ~d.subscribed
    /\ (last'.op = "clearInterrupts" /\ interrupts = <<>>) =>
          /\ UNCHANGED fields
          /\ Hooks(trace') = <<>>
          /\ Emitted(trace') = <<>>
C17_DroppedSourcesAreSilent == [][C17_Step]_vars

\* C17 witness: while the controller is running, a source whose subscription
\* setInterrupts() replaced by one on the other source fired, and nothing was
\* emitted.
C17_Witness ==
    /\ last.op = "trigger"
    /\ last.was.running
    /\ running
    /\ \E d \in dropped : d.source = last.arg.source
    /\ SubsOn(interrupts, last.arg.source) = {}
    /\ interrupts # <<>>
    /\ Emitted(trace) = <<>>

\* The countdown ran out: idle-start and the warnings were emitted, then
\* timeout, and the controller is timed out with nothing pending.
CountdownRanOut ==
    /\ ~running /\ idling
    /\ countdown = 0
    /\ NoTimerPending(timers, idleHandle, timeoutHandle)
    /\ history.fired = CountdownScript(timeoutVal)

\* C12: after a watch() with a timeout duration greater than 0 that no call of
\* the embedder follows, with the host running its timers, the controller
\* eventually has emitted idle-start and then timeout and is not running,
\* idling, with countdown 0 and no timer pending, and from then on stays so:
\* nothing more is emitted.
C12_QuietWatchTimesOut == (silent /\ timeoutVal > 0) ~> [](CountdownRanOut)

\* C12 witness: the embedder made its last call, a watch(), and the countdown
\* ran out.
C12_Witness ==
    /\ silent
    /\ timeoutVal > 0
    /\ last.op = "countdownTimer"
    /\ CountdownRanOut

\* The step ran the listener: the emission it is registered on is followed
\* at once by the call it makes.
ListenerCalled(tr) ==
    \E k \in 1..(Len(tr) - 1) :
        /\ tr[k].k = "emit" /\ tr[k].n = listener.on
        /\ tr[k + 1] = CallEv(listener.does, Null)

\* C20: with a listener that calls watch() or stop() from inside an emission,
\* after every call and every timer callback: if the listener ran, its call
\* stands (after its stop() the controller is not running, after its watch()
\* it is running and not idling); a running, not idling controller has its
\* idle timer scheduled; and a controller that is not running has no timer
\* scheduled.
C20_ConsistentAfterListenerCall ==
    /\ ListenerCalled(trace) =>
          IF listener.does = "stop" THEN ~running ELSE running /\ ~idling
    /\ (running /\ ~idling) => IdleTimerPending(timers)
    /\ ~running => timers = <<>>

====
